---- MODULE Spec2Model ----
(***************************************************************************)
(* Fluent Bit [OUTPUT] section compiler of the telemetry manager           *)
(* (internal/fluentbit/config/builder/output.go).                          *)
(*                                                                         *)
(* Go strings are TLA+ strings, joined with \o.  Where the code compares   *)
(* strings byte by byte (sort.Strings in concatenateLabels) a string is a  *)
(* sequence of one-character strings, ordered by Ord and turned into a     *)
(* TLA+ string by Str.  A text is the sequence of its lines; the empty     *)
(* text "" is the empty sequence.  A Go pointer is a sequence of length 0  *)
(* (nil) or 1 (the pointee).                                               *)
(***************************************************************************)
EXTENDS Integers, Sequences, FiniteSets, TLC

VARIABLES
    retryLimit,   \* package-level var retryLimit (output.go:16)
    op,           \* which function the sequential caller invokes
    pc,           \* "start" before the call, "done" after it returned
    pipeline,     \* argument of createOutputSection: the LogPipeline
    defaults,     \* argument of createOutputSection: the PipelineDefaults
    value,        \* argument of resolveValue: the ValueType
    logPipeline,  \* argument of resolveValue: the pipeline name
    labels,       \* argument of concatenateLabels: the label map
    iter,         \* order in which the range loop enumerated the label map
    sb,           \* the pairs accumulated by the section builder of the call
    section,      \* text returned by createOutputSection
    resolved,     \* string returned by resolveValue
    labelStr,     \* string returned by concatenateLabels
    cPipeline,    \* concurrent callers: the pipeline each invocation was given
    cDefaults,    \* concurrent callers: the defaults shared by all invocations
    cPc,          \* concurrent callers: the next statement of each invocation
    cSb,          \* concurrent callers: the builders, one slot per invocation
    cIter,        \* concurrent callers: label map iteration order of each invocation
    cOut          \* concurrent callers: the text each invocation returned

vars == <<retryLimit, op, pc, pipeline, defaults, value, logPipeline, labels, iter,
          sb, section, resolved, labelStr,
          cPipeline, cDefaults, cPc, cSb, cIter, cOut>>

seqVars == <<op, pc, pipeline, defaults, value, logPipeline, labels, iter,
             sb, section, resolved, labelStr>>

concVars == <<cPipeline, cDefaults, cPc, cSb, cIter, cOut>>

(***************************************************************************)
(* Bounds of the model.                                                    *)
(***************************************************************************)
MaxLines == 2        \* lines of a custom output text
MaxLabels == 2       \* entries of a Loki label map
MaxRemoveKeys == 1   \* entries of a Loki removeKeys list
NumCalls == 2        \* concurrent invocations of createOutputSection

(***************************************************************************)
(* Strings as byte sequences.                                              *)
(***************************************************************************)
\* The byte value of a character (ASCII), for the characters the model uses.
Ord(c) ==
    CASE c = " " -> 32
      [] c = "\"" -> 34
      [] c = "," -> 44
      [] c = "2" -> 50
      [] c = "=" -> 61
      [] c = "a" -> 97
      [] c = "d" -> 100
      [] c = "e" -> 101
      [] c = "f" -> 102
      [] c = "n" -> 110
      [] c = "o" -> 111
      [] c = "p" -> 112
      [] c = "r" -> 114
      [] c = "v" -> 118
      [] c = "{" -> 123
      [] c = "}" -> 125

\* The Go string made of the characters cs.
RECURSIVE Str(_)
Str(cs) == IF cs = <<>> THEN "" ELSE Head(cs) \o Str(Tail(cs))

\* Go's < on strings: byte-wise lexicographic, a proper prefix being smaller.
RECURSIVE StringLess(_, _)
StringLess(a, b) ==
    IF b = <<>> THEN FALSE
    ELSE IF a = <<>> THEN TRUE
    ELSE IF Ord(Head(a)) /= Ord(Head(b)) THEN Ord(Head(a)) < Ord(Head(b))
    ELSE StringLess(Tail(a), Tail(b))

\* strings.Join over byte-sequence strings.
RECURSIVE JoinChars(_, _)
JoinChars(elems, sep) ==
    IF elems = <<>> THEN <<>>
    ELSE IF Len(elems) = 1 THEN elems[1]
    ELSE elems[1] \o sep \o JoinChars(Tail(elems), sep)

\* strings.Join over strings.
RECURSIVE Join(_, _)
Join(elems, sep) ==
    IF elems = <<>> THEN ""
    ELSE IF Len(elems) = 1 THEN elems[1]
    ELSE elems[1] \o sep \o Join(Tail(elems), sep)

\* Inserts s into the ascending sequence sorted, before the first larger element.
RECURSIVE InsertSorted(_, _)
InsertSorted(s, sorted) ==
    IF sorted = <<>> THEN <<s>>
    ELSE IF StringLess(s, Head(sorted)) THEN <<s>> \o sorted
    ELSE <<Head(sorted)>> \o InsertSorted(s, Tail(sorted))

\* sort.Strings: the elements of slice in ascending byte-wise order.
RECURSIVE SortStrings(_)
SortStrings(slice) ==
    IF slice = <<>> THEN <<>>
    ELSE InsertSorted(Head(slice), SortStrings(Tail(slice)))

\* The orders in which a range loop can enumerate the keys of map m.
Perms(m) ==
    {o \in [1..Cardinality(DOMAIN m) -> DOMAIN m] :
        \A i, j \in DOMAIN o : i /= j => o[i] /= o[j]}

(***************************************************************************)
(* Types of the pipeline specification (apis/telemetry/v1alpha1).          *)
(***************************************************************************)
Nil == <<>>

Ptr(x) == <<x>>

Deref(p) == p[1]

\* SecretKeyRef presence test of a ValueFrom source.
IsSecretKeyRef(valueFrom) == valueFrom.SecretKeyRef /= Nil

\* ValueType.IsDefined: a literal or a secret key reference is set.
IsDefined(v) ==
    \/ v.Value /= ""
    \/ v.ValueFrom /= Nil /\ IsSecretKeyRef(Deref(v.ValueFrom))

\* Output.IsCustomDefined / IsHTTPDefined / IsLokiDefined: the three
\* independent predicates telling which sink is populated.
IsCustomDefined(output) == output.Custom /= <<>>

IsHTTPDefined(output) == output.HTTP /= Nil

IsLokiDefined(output) == output.Loki /= Nil

\* envvar.FormatEnvVarName: the environment variable name of a secret key of
\* a pipeline, a function of its four arguments only.
FormatEnvVarName(prefix, namespace, name, key) ==
    prefix \o "_" \o namespace \o "_" \o name \o "_" \o key

(***************************************************************************)
(* The section builder (Parameter List Builder).  A builder is the         *)
(* sequence of the pairs added so far.                                     *)
(***************************************************************************)
\* strings.ToLower on the keys the model uses.
ToLower(s) ==
    CASE s = "Name" -> "name"
      [] s = "NAME" -> "name"
      [] s = "Alias" -> "alias"
      [] s = "Match" -> "match"
      [] s = "Brokers" -> "brokers"
      [] OTHER -> s

\* strings.TrimSpace on the values the model uses.
TrimSpace(s) == IF s \in {" ", "  "} THEN "" ELSE s

NewOutputSectionBuilder == <<>>

AddConfigParam(b, key, val) == Append(b, [Key |-> key, Value |-> val])

AddIfNotEmpty(b, key, val) ==
    IF TrimSpace(val) /= "" THEN AddConfigParam(b, key, val) ELSE b

AddIfNotEmptyOrDefault(b, key, val, defaultValue) ==
    IF val /= "" THEN AddConfigParam(b, key, val)
    ELSE AddConfigParam(b, key, defaultValue)

\* ParameterList.ContainsKey: case-insensitive membership.
ContainsKey(params, key) ==
    \E i \in 1..Len(params) : ToLower(params[i].Key) = ToLower(key)

\* ParameterList.GetByKey: pointer to the first pair with the key
\* (case-insensitive), nil when there is none.
GetByKey(params, key) ==
    IF ContainsKey(params, key)
    THEN LET first == CHOOSE i \in 1..Len(params) :
                         /\ ToLower(params[i].Key) = ToLower(key)
                         /\ \A j \in 1..(i - 1) : ToLower(params[j].Key) /= ToLower(key)
         IN  Ptr(params[first])
    ELSE Nil

\* One rendered body line of a section.
Line(key, val) == "    " \o key \o "  " \o val

\* SectionBuilder.Build: opening marker, one line per pair in insertion
\* order, closing marker.
Build(b) == <<"[OUTPUT]">> \o [i \in 1..Len(b) |-> Line(b[i].Key, b[i].Value)] \o <<"End">>

\* parseMultiline: the well-formed lines ("key value") of a custom output
\* text, in source order; a line is the sequence of its whitespace-separated
\* words, blank lines and lines without a value are skipped.
RECURSIVE parseMultiline(_)
parseMultiline(text) ==
    IF text = <<>> THEN <<>>
    ELSE IF Len(Head(text)) = 2
         THEN <<[Key |-> Head(text)[1], Value |-> Head(text)[2]]>> \o parseMultiline(Tail(text))
         ELSE parseMultiline(Tail(text))

(***************************************************************************)
(* output.go                                                               *)
(***************************************************************************)
\* resolveValue with the secret reference taking precedence over the literal.
resolveValueSecretFirst(v, name) ==
    IF v.ValueFrom /= Nil /\ IsSecretKeyRef(Deref(v.ValueFrom))
    THEN LET secretKeyRef == Deref(Deref(v.ValueFrom).SecretKeyRef)
         IN  "${" \o FormatEnvVarName(name, secretKeyRef.Namespace,
                                      secretKeyRef.Name, secretKeyRef.Key) \o "}"
    ELSE v.Value

\* resolveValue (output.go:133-142).
resolveValue(v, name) ==
    IF v.Value /= "" THEN v.Value
    ELSE IF v.ValueFrom /= Nil /\ IsSecretKeyRef(Deref(v.ValueFrom))
         THEN LET secretKeyRef == Deref(Deref(v.ValueFrom).SecretKeyRef)
              IN  "${" \o FormatEnvVarName(name, secretKeyRef.Namespace,
                                           secretKeyRef.Name, secretKeyRef.Key) \o "}"
         ELSE ""

\* The loop of concatenateLabels (output.go:126-128): one formatted entry
\* per map entry, in the order the range loop enumerates them.
FormatLabels(m, order) ==
    [i \in 1..Len(order) |-> order[i] \o <<"=", "\"">> \o m[order[i]] \o <<"\"">>]

\* concatenateLabels without its sort.
LeaveLabelsUnsorted(labelsSlice) == labelsSlice

\* The sort of concatenateLabels (output.go:129).
SortLabels(labelsSlice) == SortStrings(labelsSlice)

\* concatenateLabels (output.go:124-131), for the enumeration order `order`.
concatenateLabels(m, order) ==
    LET labelsSlice == SortLabels(FormatLabels(m, order))
    IN  Str(<<"{">> \o JoinChars(labelsSlice, <<",", " ">>) \o <<"}">>)

\* The host pair of generateHTTPOutput, added unconditionally.
AddHostAlways(b, httpOutput, name) ==
    AddConfigParam(b, "host", resolveValue(httpOutput.Host, name))

\* The host pair of generateHTTPOutput (output.go:68-71).
AddHost(b, httpOutput, name) ==
    IF IsDefined(httpOutput.Host)
    THEN AddConfigParam(b, "host", resolveValue(httpOutput.Host, name))
    ELSE b

\* The tls pair of generateHTTPOutput, left out when TLS is disabled.
AddTLSUnlessDisabled(b, tlsConfig) ==
    IF tlsConfig.Disabled THEN b ELSE AddConfigParam(b, "tls", "on")

\* The tls pair of generateHTTPOutput (output.go:80-84).
AddTLS(b, tlsConfig) ==
    LET tlsEnabled == IF tlsConfig.Disabled THEN "off" ELSE "on"
    IN  AddConfigParam(b, "tls", tlsEnabled)

\* The tls.verify pair of generateHTTPOutput (output.go:85-89).
AddTLSVerify(b, tlsConfig) ==
    LET tlsVerify == IF tlsConfig.SkipCertificateValidation THEN "off" ELSE "on"
    IN  AddConfigParam(b, "tls.verify", tlsVerify)

\* Number of builder statements of generateHTTPOutput (output.go:57-98).
HTTPLen == 18

\* Statement i of generateHTTPOutput applied to builder b (output.go:57-98).
HTTPStmt(i, b, httpOutput, fsBufferLimit, name) ==
    CASE i = 1 -> AddConfigParam(b, "name", "http")
      [] i = 2 -> AddConfigParam(b, "allow_duplicated_headers", "true")
      [] i = 3 -> AddConfigParam(b, "match", name \o ".*")
      [] i = 4 -> AddConfigParam(b, "alias", name \o "-http")
      [] i = 5 -> AddConfigParam(b, "storage.total_limit_size", fsBufferLimit)
      [] i = 6 -> AddConfigParam(b, "retry_limit", retryLimit)
      [] i = 7 -> AddIfNotEmpty(b, "uri", httpOutput.URI)
      [] i = 8 -> AddIfNotEmpty(b, "compress", httpOutput.Compress)
      [] i = 9 -> AddIfNotEmptyOrDefault(b, "port", httpOutput.Port, "443")
      [] i = 10 -> AddIfNotEmptyOrDefault(b, "format", httpOutput.Format, "json")
      [] i = 11 -> AddHost(b, httpOutput, name)
      [] i = 12 -> IF IsDefined(httpOutput.Password)
                   THEN AddConfigParam(b, "http_passwd", resolveValue(httpOutput.Password, name))
                   ELSE b
      [] i = 13 -> IF IsDefined(httpOutput.User)
                   THEN AddConfigParam(b, "http_user", resolveValue(httpOutput.User, name))
                   ELSE b
      [] i = 14 -> AddTLS(b, httpOutput.TLSConfig)
      [] i = 15 -> AddTLSVerify(b, httpOutput.TLSConfig)
      [] i = 16 -> IF IsDefined(httpOutput.TLSConfig.CA)
                   THEN AddConfigParam(b, "tls.ca_file", "/fluent-bit/tls/" \o name \o "-ca.crt")
                   ELSE b
      [] i = 17 -> IF IsDefined(httpOutput.TLSConfig.Cert)
                   THEN AddConfigParam(b, "tls.crt_file", "/fluent-bit/tls/" \o name \o "-cert.crt")
                   ELSE b
      [] i = 18 -> IF IsDefined(httpOutput.TLSConfig.Key)
                   THEN AddConfigParam(b, "tls.key_file", "/fluent-bit/tls/" \o name \o "-key.key")
                   ELSE b

\* Number of builder statements of generateLokiOutput (output.go:105-120).
LokiLen == 10

\* Statement i of generateLokiOutput applied to builder b (output.go:105-120);
\* order is the enumeration order of the label map in concatenateLabels.
LokiStmt(i, b, lokiOutput, fsBufferLimit, name, order) ==
    CASE i = 1 -> AddConfigParam(b, "labelMapPath", "/fluent-bit/etc/loki-labelmap.json")
      [] i = 2 -> AddConfigParam(b, "loglevel", "warn")
      [] i = 3 -> AddConfigParam(b, "lineformat", "json")
      [] i = 4 -> AddConfigParam(b, "match", name \o ".*")
      [] i = 5 -> AddConfigParam(b, "storage.total_limit_size", fsBufferLimit)
      [] i = 6 -> AddConfigParam(b, "name", "grafana-loki")
      [] i = 7 -> AddConfigParam(b, "alias", name \o "-grafana-loki")
      [] i = 8 -> AddConfigParam(b, "url", resolveValue(lokiOutput.URL, name))
      [] i = 9 -> IF Cardinality(DOMAIN lokiOutput.Labels) /= 0
                  THEN AddConfigParam(b, "labels", concatenateLabels(lokiOutput.Labels, order))
                  ELSE b
      [] i = 10 -> IF Len(lokiOutput.RemoveKeys) /= 0
                   THEN AddConfigParam(b, "removeKeys", Join(lokiOutput.RemoveKeys, ", "))
                   ELSE b

\* The synthesized alias of generateCustomOutput, added whether or not the
\* text has an alias.
SynthesizeAliasAlways(b, aliasPresent, name, outputName) ==
    AddConfigParam(b, "alias", name \o "-" \o outputName)

\* The synthesized alias of generateCustomOutput (output.go:46-48).
SynthesizeAlias(b, aliasPresent, name, outputName) ==
    IF ~aliasPresent
    THEN AddConfigParam(b, "alias", name \o "-" \o outputName)
    ELSE b

\* The operator-owned pairs of generateCustomOutput, each left out when the
\* builder already holds its key.
AddOperatorParamUnlessPresent(j, b, fsBufferLimit, name) ==
    CASE j = 1 -> IF ContainsKey(b, "match") THEN b
                  ELSE AddConfigParam(b, "match", name \o ".*")
      [] j = 2 -> IF ContainsKey(b, "storage.total_limit_size") THEN b
                  ELSE AddConfigParam(b, "storage.total_limit_size", fsBufferLimit)
      [] j = 3 -> IF ContainsKey(b, "retry_limit") THEN b
                  ELSE AddConfigParam(b, "retry_limit", retryLimit)

\* The j-th of the three operator-owned pairs generateCustomOutput appends
\* (output.go:49-51).
AddOperatorParam(j, b, fsBufferLimit, name) ==
    CASE j = 1 -> AddConfigParam(b, "match", name \o ".*")
      [] j = 2 -> AddConfigParam(b, "storage.total_limit_size", fsBufferLimit)
      [] j = 3 -> AddConfigParam(b, "retry_limit", retryLimit)

\* Number of builder statements of generateCustomOutput: one per parsed
\* pair (the loop, output.go:43-45) and the four that follow (output.go:46-51).
CustomLen(output) == Len(parseMultiline(output.Custom)) + 4

\* Statement i of generateCustomOutput applied to builder b (output.go:37-51).
CustomStmt(i, b, output, fsBufferLimit, name) ==
    LET customOutputParams == parseMultiline(output.Custom)
        n == Len(customOutputParams)
        outputName == IF GetByKey(customOutputParams, "name") /= Nil
                      THEN Deref(GetByKey(customOutputParams, "name")).Value
                      ELSE ""
        aliasPresent == ContainsKey(customOutputParams, "alias")
    IN  CASE i <= n -> AddConfigParam(b, customOutputParams[i].Key, customOutputParams[i].Value)
          [] i = n + 1 -> SynthesizeAlias(b, aliasPresent, name, outputName)
          [] i > n + 1 -> AddOperatorParam(i - n - 1, b, fsBufferLimit, name)

\* createOutputSection testing the HTTP sink before the custom one.
DispatchHTTPFirst(output) ==
    IF IsHTTPDefined(output) THEN "http"
    ELSE IF IsCustomDefined(output) THEN "custom"
    ELSE IF IsLokiDefined(output) THEN "loki"
    ELSE "none"

\* Which assembler createOutputSection runs (output.go:18-33).
Dispatch(output) ==
    IF IsCustomDefined(output) THEN "custom"
    ELSE IF IsHTTPDefined(output) THEN "http"
    ELSE IF IsLokiDefined(output) THEN "loki"
    ELSE "none"

\* Number of builder statements of the assembler of kind `kind` on pipeline p.
StmtCount(kind, p) ==
    CASE kind = "custom" -> CustomLen(p.Spec.Output)
      [] kind = "http" -> HTTPLen
      [] kind = "loki" -> LokiLen
      [] OTHER -> 0

\* Statement i of the assembler of kind `kind` on pipeline p.
Stmt(kind, i, b, p, d, order) ==
    CASE kind = "custom" -> CustomStmt(i, b, p.Spec.Output, d.FsBufferLimit, p.Name)
      [] kind = "http" -> HTTPStmt(i, b, Deref(p.Spec.Output.HTTP), d.FsBufferLimit, p.Name)
      [] kind = "loki" -> LokiStmt(i, b, Deref(p.Spec.Output.Loki), d.FsBufferLimit, p.Name, order)

\* The builder after statements i.. of the assembler have run on b.
RECURSIVE Run(_, _, _, _, _, _)
Run(kind, i, b, p, d, order) ==
    IF i > StmtCount(kind, p) THEN b
    ELSE Run(kind, i + 1, Stmt(kind, i, b, p, d, order), p, d, order)

\* generateCustomOutput (output.go:35-53): the pairs it accumulates.
CustomParams(p, d) == Run("custom", 1, NewOutputSectionBuilder, p, d, <<>>)

\* generateHTTPOutput (output.go:55-101): the pairs it accumulates.
HTTPParams(p, d) == Run("http", 1, NewOutputSectionBuilder, p, d, <<>>)

\* generateLokiOutput (output.go:103-122): the pairs it accumulates.
LokiParams(p, d, order) == Run("loki", 1, NewOutputSectionBuilder, p, d, order)

generateCustomOutput(p, d) == Build(CustomParams(p, d))

generateHTTPOutput(p, d) == Build(HTTPParams(p, d))

generateLokiOutput(p, d, order) == Build(LokiParams(p, d, order))

\* createOutputSection (output.go:18-33).
createOutputSection(p, d, order) ==
    CASE Dispatch(p.Spec.Output) = "custom" -> generateCustomOutput(p, d)
      [] Dispatch(p.Spec.Output) = "http" -> generateHTTPOutput(p, d)
      [] Dispatch(p.Spec.Output) = "loki" -> generateLokiOutput(p, d, order)
      [] OTHER -> <<>>

\* The pairs held by the builder of the assembler createOutputSection ran.
AccumulatedParams(p, d, order) ==
    CASE Dispatch(p.Spec.Output) = "custom" -> CustomParams(p, d)
      [] Dispatch(p.Spec.Output) = "http" -> HTTPParams(p, d)
      [] Dispatch(p.Spec.Output) = "loki" -> LokiParams(p, d, order)
      [] OTHER -> <<>>

(***************************************************************************)
(* Inputs.                                                                 *)
(***************************************************************************)
Names == {"p1", "p2"}

Defaults == {[FsBufferLimit |-> "1G"], [FsBufferLimit |-> "512M"]}

Undefined == [Value |-> "", ValueFrom |-> Nil]

Literal(s) == [Value |-> s, ValueFrom |-> Nil]

SecretKeyRefs == [Namespace : {"ns1", "ns2"}, Name : {"creds", "tls"}, Key : {"host", "pw"}]

FromSecret(s, ref) == [Value |-> s, ValueFrom |-> Ptr([SecretKeyRef |-> Ptr(ref)])]

\* A ValueFrom that names no secret key.
FromNothing == [Value |-> "", ValueFrom |-> Ptr([SecretKeyRef |-> Nil])]

HostRef == [Namespace |-> "ns1", Name |-> "creds", Key |-> "host"]

PasswordRef == [Namespace |-> "ns1", Name |-> "creds", Key |-> "pw"]

\* The ValueTypes resolveValue is called with on its own.
ValueTypes ==
    {Undefined, FromNothing, Literal("example.com")}
        \cup {FromSecret(s, ref) : s \in {"", "example.com"}, ref \in SecretKeyRefs}

HostValues ==
    {Undefined, FromNothing, Literal("example.com"), FromSecret("", HostRef)}

TLSConfigs ==
    [Disabled : BOOLEAN, SkipCertificateValidation : BOOLEAN,
     CA : {Undefined, Literal("ca-pem")},
     Cert : {Undefined, Literal("cert-pem")},
     Key : {Undefined, Literal("key-pem")}]

HTTPOutputs ==
    [URI : {"", " ", "https://example/logs"},
     Compress : {"", "gzip"},
     Port : {"", "8080"},
     Format : {"", "msgpack"},
     Host : HostValues,
     Password : {Undefined, FromSecret("", PasswordRef)},
     User : {Undefined, Literal("admin")},
     TLSConfig : TLSConfigs]

\* Label keys and values, as byte sequences.
LabelKeys == {<<"a", "p", "p">>, <<"a", "p", "p", "2">>, <<"e", "n", "v">>}

LabelValues == {<<"f", "o", "o">>, <<"p", "r", "o", "d">>}

LabelMaps ==
    UNION {[ks -> LabelValues] : ks \in {k \in SUBSET LabelKeys : Cardinality(k) <= MaxLabels}}

RemoveKeyLists == UNION {[1..n -> {"kubernetes", "stream"}] : n \in 0..MaxRemoveKeys}

LokiOutputs ==
    [URL : {Undefined, Literal("http://loki:3100"), FromSecret("", HostRef)},
     Labels : LabelMaps,
     RemoveKeys : RemoveKeyLists]

\* Lines of a custom output text: the words of each line.
CustomLines ==
    {<<"Name", "kafka">>, <<"name", "stdout">>, <<"Alias", "mine">>,
     <<"Brokers", "broker:9092">>, <<"Match", "*">>, <<"retry_limit", "5">>,
     <<"storage.total_limit_size", "9G">>, <<"garbage">>, <<>>}

CustomTexts == UNION {[1..n -> CustomLines] : n \in 1..MaxLines}

Output(custom, http, loki) == [Custom |-> custom, HTTP |-> http, Loki |-> loki]

SampleHTTP ==
    [URI |-> "https://example/logs", Compress |-> "", Port |-> "", Format |-> "",
     Host |-> Literal("example.com"), Password |-> Undefined, User |-> Undefined,
     TLSConfig |-> [Disabled |-> FALSE, SkipCertificateValidation |-> FALSE,
                    CA |-> Undefined, Cert |-> Undefined, Key |-> Undefined]]

SampleLoki ==
    [URL |-> Literal("http://loki:3100"),
     Labels |-> (<<"a", "p", "p">> :> <<"f", "o", "o">>) @@ (<<"e", "n", "v">> :> <<"p", "r", "o", "d">>),
     RemoveKeys |-> <<"kubernetes">>]

SampleCustom == <<<<"Name", "kafka">>, <<"Brokers", "broker:9092">>>>

\* Output structs: one sink populated, none populated, and several at once.
Outputs ==
    {Output(c, Nil, Nil) : c \in CustomTexts}
        \cup {Output(<<>>, Ptr(h), Nil) : h \in HTTPOutputs}
        \cup {Output(<<>>, Nil, Ptr(l)) : l \in LokiOutputs}
        \cup {Output(c, h, l) : c \in {<<>>, SampleCustom}, h \in {Nil, Ptr(SampleHTTP)},
                                l \in {Nil, Ptr(SampleLoki)}}

Pipelines == {[Name |-> n, Spec |-> [Output |-> o]] : n \in Names, o \in Outputs}

UnsetPipeline == [Name |-> "p1", Spec |-> [Output |-> Output(<<>>, Nil, Nil)]]

\* Pipelines of the concurrent callers.
ConcPipelines ==
    {[Name |-> "p1", Spec |-> [Output |-> Output(SampleCustom, Nil, Nil)]],
     [Name |-> "p2", Spec |-> [Output |-> Output(<<>>, Ptr(SampleHTTP), Nil)]],
     [Name |-> "p1", Spec |-> [Output |-> Output(<<>>, Nil, Ptr(SampleLoki))]],
     UnsetPipeline}

(***************************************************************************)
(* Sequential caller: one call of one function.                            *)
(***************************************************************************)
ConcIdle ==
    /\ cPipeline = [c \in 1..NumCalls |-> UnsetPipeline]
    /\ cDefaults = [FsBufferLimit |-> "1G"]
    /\ cPc = [c \in 1..NumCalls |-> [at |-> "done", i |-> 0]]
    /\ cSb = [c \in 1..NumCalls |-> <<>>]
    /\ cIter = [c \in 1..NumCalls |-> <<>>]
    /\ cOut = [c \in 1..NumCalls |-> <<>>]

Init ==
    /\ retryLimit = "300"
    /\ pc = "start"
    /\ iter = <<>>
    /\ sb = <<>>
    /\ section = <<>>
    /\ resolved = ""
    /\ labelStr = ""
    /\ \/ /\ op = "createOutputSection"
          /\ pipeline \in Pipelines
          /\ defaults \in Defaults
          /\ value = Undefined
          /\ logPipeline = "p1"
          /\ labels = <<>>
       \/ /\ op = "resolveValue"
          /\ value \in ValueTypes
          /\ logPipeline \in Names
          /\ pipeline = UnsetPipeline
          /\ defaults = [FsBufferLimit |-> "1G"]
          /\ labels = <<>>
       \/ /\ op = "concatenateLabels"
          /\ labels \in LabelMaps
          /\ pipeline = UnsetPipeline
          /\ defaults = [FsBufferLimit |-> "1G"]
          /\ value = Undefined
          /\ logPipeline = "p1"
    /\ ConcIdle

\* The enumeration orders of the label map a call of createOutputSection on p meets.
Orders(p) ==
    IF Dispatch(p.Spec.Output) = "loki"
    THEN Perms(Deref(p.Spec.Output.Loki).Labels)
    ELSE {<<>>}

CreateOutputSection ==
    /\ pc = "start"
    /\ op = "createOutputSection"
    /\ \E order \in Orders(pipeline) :
          /\ iter' = order
          /\ sb' = AccumulatedParams(pipeline, defaults, order)
          /\ section' = createOutputSection(pipeline, defaults, order)
    /\ pc' = "done"
    /\ UNCHANGED <<retryLimit, op, pipeline, defaults, value, logPipeline, labels,
                   resolved, labelStr>>
    /\ UNCHANGED concVars

ResolveValue ==
    /\ pc = "start"
    /\ op = "resolveValue"
    /\ resolved' = resolveValue(value, logPipeline)
    /\ pc' = "done"
    /\ UNCHANGED <<retryLimit, op, pipeline, defaults, value, logPipeline, labels,
                   iter, sb, section, labelStr>>
    /\ UNCHANGED concVars

ConcatenateLabels ==
    /\ pc = "start"
    /\ op = "concatenateLabels"
    /\ \E order \in Perms(labels) :
          /\ iter' = order
          /\ labelStr' = concatenateLabels(labels, order)
    /\ pc' = "done"
    /\ UNCHANGED <<retryLimit, op, pipeline, defaults, value, logPipeline, labels,
                   sb, section, resolved>>
    /\ UNCHANGED concVars

Next == CreateOutputSection \/ ResolveValue \/ ConcatenateLabels

Spec == Init /\ [][Next]_vars

(***************************************************************************)
(* Concurrent callers: NumCalls invocations of createOutputSection, run    *)
(* statement by statement in any interleaving.  Each invocation has the    *)
(* locals of its own call frame; the pipelines, the defaults and           *)
(* retryLimit are shared.                                                  *)
(***************************************************************************)
Calls == 1..NumCalls

SeqIdle ==
    /\ op = "none"
    /\ pc = "done"
    /\ pipeline = UnsetPipeline
    /\ defaults = [FsBufferLimit |-> "1G"]
    /\ value = Undefined
    /\ logPipeline = "p1"
    /\ labels = <<>>
    /\ iter = <<>>
    /\ sb = <<>>
    /\ section = <<>>
    /\ resolved = ""
    /\ labelStr = ""

InitConc ==
    /\ retryLimit = "300"
    /\ SeqIdle
    /\ cPipeline \in [Calls -> ConcPipelines]
    /\ cDefaults \in Defaults
    /\ cPc = [c \in Calls |-> [at |-> "dispatch", i |-> 0]]
    /\ cSb = [c \in Calls |-> <<>>]
    /\ cIter = [c \in Calls |-> <<>>]
    /\ cOut = [c \in Calls |-> <<>>]

\* One builder shared by all invocations, as a package-level variable would be.
SharedSb(self) == 1

\* Where the builder of invocation self lives: `sb := NewOutputSectionBuilder()`
\* declares a local of the call (output.go:36, 56, 104).
SbOf(self) == self

KindOf(self) == Dispatch(cPipeline[self].Spec.Output)

\* createOutputSection evaluates the predicates (output.go:19-32); with no
\* sink populated it returns "".
CallDispatch(self) ==
    /\ cPc[self].at = "dispatch"
    /\ IF KindOf(self) = "none"
       THEN /\ cOut' = [cOut EXCEPT ![self] = <<>>]
            /\ cPc' = [cPc EXCEPT ![self] = [at |-> "done", i |-> 0]]
       ELSE /\ cPc' = [cPc EXCEPT ![self] = [at |-> "new", i |-> 0]]
            /\ UNCHANGED cOut
    /\ UNCHANGED <<retryLimit, cPipeline, cDefaults, cSb, cIter>>
    /\ UNCHANGED seqVars

\* sb := NewOutputSectionBuilder() (output.go:36, 56, 104).
CallNewBuilder(self) ==
    /\ cPc[self].at = "new"
    /\ cSb' = [cSb EXCEPT ![SbOf(self)] = NewOutputSectionBuilder]
    /\ cPc' = [cPc EXCEPT ![self] = [at |-> "stmt", i |-> 1]]
    /\ UNCHANGED <<retryLimit, cPipeline, cDefaults, cIter, cOut>>
    /\ UNCHANGED seqVars

\* The next builder statement of the assembler.
CallStmt(self) ==
    /\ cPc[self].at = "stmt"
    /\ cPc[self].i <= StmtCount(KindOf(self), cPipeline[self])
    /\ \E order \in (IF KindOf(self) = "loki" /\ cPc[self].i = 9
                     THEN Perms(Deref(cPipeline[self].Spec.Output.Loki).Labels)
                     ELSE {cIter[self]}) :
          /\ cIter' = [cIter EXCEPT ![self] = order]
          /\ cSb' = [cSb EXCEPT ![SbOf(self)] =
                        Stmt(KindOf(self), cPc[self].i, @, cPipeline[self], cDefaults, order)]
    /\ cPc' = [cPc EXCEPT ![self] = [at |-> "stmt", i |-> cPc[self].i + 1]]
    /\ UNCHANGED <<retryLimit, cPipeline, cDefaults, cOut>>
    /\ UNCHANGED seqVars

\* return sb.Build() (output.go:52, 100, 121).
CallBuild(self) ==
    /\ cPc[self].at = "stmt"
    /\ cPc[self].i > StmtCount(KindOf(self), cPipeline[self])
    /\ cOut' = [cOut EXCEPT ![self] = Build(cSb[SbOf(self)])]
    /\ cPc' = [cPc EXCEPT ![self] = [at |-> "done", i |-> 0]]
    /\ UNCHANGED <<retryLimit, cPipeline, cDefaults, cSb, cIter>>
    /\ UNCHANGED seqVars

NextConc ==
    \E self \in Calls :
        CallDispatch(self) \/ CallNewBuilder(self) \/ CallStmt(self) \/ CallBuild(self)

SpecConc == InitConc /\ [][NextConc]_vars

(***************************************************************************)
(* Properties.                                                             *)
(***************************************************************************)
Returned(f) == pc = "done" /\ op = f

Sink == pipeline.Spec.Output

\* Indices of the pairs of params whose key is key.
Indices(params, key) == {i \in 1..Len(params) : params[i].Key = key}

\* Indices of the pairs of params whose key is key, compared case-insensitively.
IndicesFold(params, key) == {i \in 1..Len(params) : ToLower(params[i].Key) = key}

\* The text has the body line of the pair (key, val).
HasLine(text, key, val) == \E i \in 1..Len(text) : text[i] = Line(key, val)

Min(S) == CHOOSE x \in S : \A y \in S : x <= y

\* C1: for every pipeline whose sink is Custom, HTTP or Loki and every buffer
\* ceiling, the section returned by createOutputSection has a retry_limit
\* pair with the value "300" and a storage.total_limit_size pair with the
\* value of the buffer ceiling.
C1_RetryAndBufferLimit ==
    (Returned("createOutputSection")
        /\ (IsCustomDefined(Sink) \/ IsHTTPDefined(Sink) \/ IsLokiDefined(Sink)))
    => /\ HasLine(section, "retry_limit", "300")
       /\ HasLine(section, "storage.total_limit_size", defaults.FsBufferLimit)

\* C2: createOutputSection tests the predicates in the order custom, HTTP,
\* Loki: its result is exactly the output of the first assembler whose
\* predicate is true, that assembler alone filled the builder, and with no
\* predicate true the result is the empty string.
C2_DispatchPriority ==
    Returned("createOutputSection") =>
        /\ IsCustomDefined(Sink) =>
              /\ section = generateCustomOutput(pipeline, defaults)
              /\ sb = CustomParams(pipeline, defaults)
        /\ (~IsCustomDefined(Sink) /\ IsHTTPDefined(Sink)) =>
              /\ section = generateHTTPOutput(pipeline, defaults)
              /\ sb = HTTPParams(pipeline, defaults)
        /\ (~IsCustomDefined(Sink) /\ ~IsHTTPDefined(Sink) /\ IsLokiDefined(Sink)) =>
              /\ section = generateLokiOutput(pipeline, defaults, iter)
              /\ sb = LokiParams(pipeline, defaults, iter)
        /\ (~IsCustomDefined(Sink) /\ ~IsHTTPDefined(Sink) /\ ~IsLokiDefined(Sink)) =>
              /\ section = <<>>
              /\ sb = <<>>

\* C2 witness: a call returned for a pipeline with all three sinks populated,
\* and the result is the custom section.
C2_Witness ==
    /\ Returned("createOutputSection")
    /\ IsCustomDefined(Sink) /\ IsHTTPDefined(Sink) /\ IsLokiDefined(Sink)
    /\ HasLine(section, "alias", "p1-kafka")
    /\ ~HasLine(section, "name", "http")

HTTPCase == Returned("createOutputSection") /\ ~IsCustomDefined(Sink) /\ IsHTTPDefined(Sink)

\* C3: for every HTTP sink the accumulated pairs hold the key tls exactly
\* once and the key tls.verify exactly once; tls is "off" iff
\* TLSConfig.Disabled and "on" otherwise, tls.verify is "off" iff
\* TLSConfig.SkipCertificateValidation and "on" otherwise.
C3_TLSAlwaysOnce ==
    HTTPCase =>
        LET tlsConfig == Deref(Sink.HTTP).TLSConfig
        IN  /\ Cardinality(Indices(sb, "tls")) = 1
            /\ Cardinality(Indices(sb, "tls.verify")) = 1
            /\ \A i \in Indices(sb, "tls") :
                  sb[i].Value = (IF tlsConfig.Disabled THEN "off" ELSE "on")
            /\ \A i \in Indices(sb, "tls.verify") :
                  sb[i].Value = (IF tlsConfig.SkipCertificateValidation THEN "off" ELSE "on")

\* C3 witness: an HTTP sink with TLS disabled and certificate validation kept
\* was compiled: tls off, tls.verify on.
C3_Witness ==
    /\ HTTPCase
    /\ Deref(Sink.HTTP).TLSConfig.Disabled
    /\ ~Deref(Sink.HTTP).TLSConfig.SkipCertificateValidation
    /\ HasLine(section, "tls", "off")
    /\ HasLine(section, "tls.verify", "on")

\* The entries of label map m formatted key="value", ordered by key
\* ascending (byte-wise on the keys alone), joined and wrapped in braces.
LabelsByKey(m) ==
    LET keys == SortStrings(CHOOSE o \in Perms(m) : TRUE)
        entries == [i \in 1..Len(keys) |-> keys[i] \o <<"=", "\"">> \o m[keys[i]] \o <<"\"">>]
    IN  Str(<<"{">> \o JoinChars(entries, <<",", " ">>) \o <<"}">>)

\* C4: for every label mapping, concatenateLabels returns the entries ordered
\* by key ascending (byte-wise on the keys alone), each formatted
\* key="value", joined with ", " and wrapped in braces.
C4_OrderedByKey ==
    Returned("concatenateLabels") => labelStr = LabelsByKey(labels)

\* C5: concatenateLabels does not depend on the order in which the range
\* loop enumerates the map: every enumeration order gives the string that was
\* returned, and every order gives the Loki section that was returned.
C5_OrderIndependent ==
    /\ Returned("concatenateLabels") =>
          \A o \in Perms(labels) : concatenateLabels(labels, o) = labelStr
    /\ (Returned("createOutputSection") /\ ~IsCustomDefined(Sink) /\ ~IsHTTPDefined(Sink)
            /\ IsLokiDefined(Sink)) =>
          \A o \in Perms(Deref(Sink.Loki).Labels) :
              createOutputSection(pipeline, defaults, o) = section

\* C5 witness: concatenateLabels returned after the range loop enumerated two
\* labels in descending order.
C5_Witness ==
    /\ Returned("concatenateLabels")
    /\ Len(iter) = 2
    /\ StringLess(iter[2], iter[1])
    /\ labelStr = "{app=\"foo\", env=\"prod\"}"

CustomCase == Returned("createOutputSection") /\ IsCustomDefined(Sink)

\* The value of the first "name" pair of params (case-insensitive), or the
\* empty string when there is none.
NameValue(params) ==
    IF IndicesFold(params, "name") = {} THEN ""
    ELSE params[Min(IndicesFold(params, "name"))].Value

\* C6: for a custom text with no pair whose key is "alias"
\* (case-insensitive) the section has exactly one alias pair, valued
\* <pipelineName>-<nameValue>, nameValue being the value of the text's "name"
\* pair (case-insensitive) or the empty string; for a text with an alias pair
\* no alias is synthesized.
C6_AliasSynthesis ==
    CustomCase =>
        LET params == parseMultiline(Sink.Custom)
            synthesized == [Key |-> "alias", Value |-> pipeline.Name \o "-" \o NameValue(params)]
        IN  /\ IndicesFold(params, "alias") = {} =>
                  /\ Cardinality(IndicesFold(sb, "alias")) = 1
                  /\ \A i \in IndicesFold(sb, "alias") : sb[i] = synthesized
                  /\ Cardinality({i \in 1..Len(section) :
                                     section[i] = Line("alias", synthesized.Value)}) = 1
            /\ IndicesFold(params, "alias") /= {} =>
                  /\ Cardinality(IndicesFold(sb, "alias")) = Cardinality(IndicesFold(params, "alias"))
                  /\ \A i \in IndicesFold(sb, "alias") : i <= Len(params) /\ sb[i] = params[i]

\* C6 witness: the text "Name kafka / Brokers broker:9092" of pipeline p1 was
\* compiled and the section has the alias p1-kafka.
C6_Witness ==
    /\ CustomCase
    /\ pipeline.Name = "p1"
    /\ Sink.Custom = <<<<"Name", "kafka">>, <<"Brokers", "broker:9092">>>>
    /\ HasLine(section, "alias", "p1-kafka")
    /\ HasLine(section, "match", "p1.*")

\* C7: generateCustomOutput adds the parsed author pairs first, in source
\* line order, then the synthesized alias if the text has none, then always
\* match = <pipelineName>.*, storage.total_limit_size = fsBufferLimit and
\* retry_limit = "300", in this order, also when the text defines these keys
\* itself: the author's pair and the operator's pair are then both in the
\* list, the operator's being the later one.
C7_CustomOrder ==
    CustomCase =>
        LET params == parseMultiline(Sink.Custom)
            n == Len(params)
            a == IF IndicesFold(params, "alias") = {} THEN 1 ELSE 0
        IN  /\ Len(sb) = n + a + 3
            /\ SubSeq(sb, 1, n) = params
            /\ a = 1 => sb[n + 1].Key = "alias"
            /\ sb[n + a + 1] = [Key |-> "match", Value |-> pipeline.Name \o ".*"]
            /\ sb[n + a + 2] = [Key |-> "storage.total_limit_size",
                                Value |-> defaults.FsBufferLimit]
            /\ sb[n + a + 3] = [Key |-> "retry_limit", Value |-> "300"]
            /\ section = Build(sb)

\* C7 witness: a text that sets retry_limit and storage.total_limit_size
\* itself was compiled; both the author's and the operator's pairs are in the
\* list, the author's first.
C7_Witness ==
    /\ CustomCase
    /\ Sink.Custom = <<<<"retry_limit", "5">>, <<"storage.total_limit_size", "9G">>>>
    /\ Indices(sb, "retry_limit") = {1, 6}
    /\ sb[1].Value = "5"
    /\ sb[6].Value = "300"
    /\ Indices(sb, "storage.total_limit_size") = {2, 5}

\* C8: concurrent invocations of createOutputSection need no
\* synchronization: no step changes the pipelines, the defaults or
\* retryLimit, a step of one invocation leaves the builder and the result of
\* every other invocation alone, and every invocation returns the text it
\* returns when run alone.
C8_ConcurrentSafe ==
    [][/\ cPipeline' = cPipeline
       /\ cDefaults' = cDefaults
       /\ retryLimit' = retryLimit
       /\ \A c \in Calls :
             cPc'[c] = cPc[c] => (cSb'[c] = cSb[c] /\ cOut'[c] = cOut[c])
       /\ \A c \in Calls :
             cPc'[c].at = "done" =>
                 cOut'[c] = createOutputSection(cPipeline[c], cDefaults, cIter'[c])]_vars

\* C8 witness: two invocations on the same HTTP pipeline both returned its
\* section.
C8_Witness ==
    /\ \A c \in Calls : cPc[c].at = "done"
    /\ cPipeline[1] = cPipeline[2]
    /\ IsHTTPDefined(cPipeline[1].Spec.Output)
    /\ \A c \in {1, 2} : HasLine(cOut[c], "alias", "p2-http")

\* The secret key reference of ValueType v is present.
HasSecretKeyRef(v) == v.ValueFrom /= Nil /\ Deref(v.ValueFrom).SecretKeyRef /= Nil

\* C9: resolveValue returns the literal when it is non-empty, also when a
\* secret reference is set too; otherwise, with a secret key reference, the
\* placeholder ${NAME}, NAME depending only on the pipeline name and the
\* secret's namespace, name and key; otherwise the empty string.
C9_ResolveValue ==
    Returned("resolveValue") =>
        /\ value.Value /= "" => resolved = value.Value
        /\ (value.Value = "" /\ HasSecretKeyRef(value)) =>
              LET ref == Deref(Deref(value.ValueFrom).SecretKeyRef)
              IN  /\ resolved = "${" \o FormatEnvVarName(logPipeline, ref.Namespace,
                                                         ref.Name, ref.Key) \o "}"
                  /\ \A v \in ValueTypes :
                        (v.Value = "" /\ HasSecretKeyRef(v)
                            /\ Deref(Deref(v.ValueFrom).SecretKeyRef) = ref)
                        => resolveValue(v, logPipeline) = resolved
        /\ (value.Value = "" /\ ~HasSecretKeyRef(value)) => resolved = ""

\* C9 witness: resolveValue returned the literal of a ValueType that has both
\* a literal and a secret key reference.
C9_Witness ==
    /\ Returned("resolveValue")
    /\ value.Value = "example.com"
    /\ HasSecretKeyRef(value)
    /\ resolved = "example.com"

\* The keys of generateHTTPOutput in the order of its statements.
HTTPKeyOrder ==
    <<"name", "allow_duplicated_headers", "match", "alias", "storage.total_limit_size",
      "retry_limit", "uri", "compress", "port", "format", "host", "http_passwd",
      "http_user", "tls", "tls.verify", "tls.ca_file", "tls.crt_file", "tls.key_file">>

Position(key) == CHOOSE k \in 1..Len(HTTPKeyOrder) : HTTPKeyOrder[k] = key

\* params has the key exactly when cond holds, and then once.
PresentIff(params, key, cond) == Cardinality(Indices(params, key)) = (IF cond THEN 1 ELSE 0)

\* Every pair of params with the key has the value val.
ValueIs(params, key, val) == \A i \in Indices(params, key) : params[i].Value = val

====
